---- MODULE Spec2Model ----
(***************************************************************************)
(* Conway's Game of Life board of Yoyoda75/game_of_life: the Board class   *)
(* of src/game/board.py (a numpy uint8 array carrying _size,               *)
(* _previous_boards and _step) and the driving loop of src/main.py.        *)
(***************************************************************************)
EXTENDS Integers, Sequences, FiniteSets, TLC

\* ------------------------------------------------------------------ bounds
\* Largest size handed to Board(size) and to the size setter in Spec.
MaxSize == 1
\* Largest board whose every 0/1 grid is an input of SpecRule, and whose grids
\* of at most MaxLive live cells are inputs of SpecRun.
MaxN == 3
MaxLive == 4
\* Number of next_step calls SpecRule makes on each input grid.
MaxRuleCalls == 1
\* Smallest and largest board that carries the block, blinker and glider
\* patterns (a block away from the edges and a padded glider need 6x6).
MinBoard == 6
MaxBoard == 7
\* Number of next_step calls a run makes (main.py loops `repeats` times).
MaxCalls == 12
\* Number of clear / randomize_board / make_glider calls in a run of Spec.
MaxInits == 1
\* Number of render_rich_table calls that complete in a run.
MaxStep == 2
\* Largest number of live cells of a small-board seed of SpecLoop.
MaxLoopLive == 2
\* Number of clear / make_glider calls in a run of SpecReinit.
MaxReinits == 2

\* ------------------------------------------------------- program constants
MAX_PREVIOUS_BOARDS == 10

\* The side of the array make_glider writes.
GliderSize == 5

VARIABLES
    constructed,        \* TRUE once Board.__new__ returned an object
    shape,              \* the ndarray's shape is (shape, shape)
    size,               \* Board._size
    grid,               \* the array's cells, a function on Cells(shape)
    previous_boards,    \* Board._previous_boards
    step,               \* Board._step
    err,                \* the exception raised by the last call, or "none"
    calls,              \* next_step calls made so far (main.py's loop index)
    inits               \* clear / randomize_board / make_glider calls so far

vars == <<constructed, shape, size, grid, previous_boards, step, err, calls, inits>>

\* ------------------------------------------------------------ the array
Cells(n) == (0 .. n - 1) \X (0 .. n - 1)

\* np.zeros((size, size), dtype=np.uint8)
zeros(n) == [p \in Cells(n) |-> 0]

\* np.zeros raises ValueError on a negative dimension.
zeros_raises(n) == n < 0

AllGridsOfThree(n) == [Cells(n) -> {0, 1, 2}]

\* The arrays np.random.choice(a=[0, 1], size=(n, n)) can return.
AllGrids(n) == [Cells(n) -> {0, 1}]

\* np.count_nonzero
count_nonzero(g) == Cardinality({p \in DOMAIN g : g[p] # 0})

\* ---------------------------------------------------------- neighbours
kernel_ones == [i \in 0 .. 2 |-> [j \in 0 .. 2 |-> 1]]

\* np.ones((3, 3)) with kernel[1, 1] = 0
kernel == [i \in 0 .. 2 |-> [j \in 0 .. 2 |-> IF i = 1 /\ j = 1 THEN 0 ELSE 1]]

\* One term of the convolution sum: kernel[i][j] * a[r + 1 - i][c + 1 - j],
\* an index beyond an edge wrapped to the opposite edge (boundary="wrap").
conv_term(a, n, k, r, c, i, j) ==
    k[i][j] * a[<<(r + 1 - i) % n, (c + 1 - j) % n>>]

\* scipy.signal.convolve2d(a, k, mode="same", boundary="wrap") on uint8.
convolve2d(a, n, k) ==
    [p \in Cells(n) |->
        ( conv_term(a, n, k, p[1], p[2], 0, 0) + conv_term(a, n, k, p[1], p[2], 0, 1)
        + conv_term(a, n, k, p[1], p[2], 0, 2) + conv_term(a, n, k, p[1], p[2], 1, 0)
        + conv_term(a, n, k, p[1], p[2], 1, 1) + conv_term(a, n, k, p[1], p[2], 1, 2)
        + conv_term(a, n, k, p[1], p[2], 2, 0) + conv_term(a, n, k, p[1], p[2], 2, 1)
        + conv_term(a, n, k, p[1], p[2], 2, 2) ) % 256]

neighbors(g, n) == convolve2d(g, n, kernel)

\* ------------------------------------------------------ transition rule
dies_under_only(nb) == nb < 2

dies_lonely_only(nb) == nb < 1 \/ nb > 3

dies_crowded(nb) == nb < 2 \/ nb >= 3

dies(nb) == nb < 2 \/ nb > 3

becomes_alive_two(population, nb) == ~population /\ nb >= 2

stays_alive(population, nb) == population /\ (nb = 2 \/ nb = 3)

becomes_alive(population, nb) == ~population /\ nb >= 3

\* np.where(dies, 0, np.where(stays_alive, 1, np.where(becomes_alive, 1, self)))
rule(cell, nb) ==
    IF dies(nb) THEN 0
    ELSE IF stays_alive(cell # 0, nb) THEN 1
    ELSE IF becomes_alive(cell # 0, nb) THEN 1
    ELSE cell

\* The grid next_step writes, every cell from the same grid and counts.
evolve(g, n) ==
    LET nb == neighbors(g, n)
    IN  [p \in Cells(n) |-> rule(g[p], nb[p])]

\* -------------------------------------------------------------- history
previous_boards_setter_resets(h, array) ==
    IF Len(h) > MAX_PREVIOUS_BOARDS THEN <<array>> ELSE Append(h, array)

previous_boards_setter_lifo(h, array) ==
    Append(IF Len(h) > MAX_PREVIOUS_BOARDS THEN SubSeq(h, 1, Len(h) - 1) ELSE h, array)

\* previous_boards.setter
previous_boards_setter(h, array) ==
    Append(IF Len(h) > MAX_PREVIOUS_BOARDS THEN Tail(h) ELSE h, array)

snapshots_aliased(h, written) == [i \in DOMAIN h |-> written]

\* The list after the array is written in place: next_step stored self.copy(),
\* an array of its own, so a write to the board changes no stored snapshot.
snapshots_after_write(h, written) == h

any_equal_last(g, h) == h # <<>> /\ h[Len(h)] = g

RECURSIVE any_equal(_, _)
\* any(np.array_equal(self.copy(), board) for board in self.previous_boards)
any_equal(g, h) ==
    IF h = <<>> THEN FALSE
    ELSE IF Head(h) = g THEN TRUE
    ELSE any_equal(g, Tail(h))

is_stable_strict(g, h) ==
    IF Len(h) > MAX_PREVIOUS_BOARDS THEN any_equal(g, h) ELSE FALSE

is_stable(g, h) ==
    IF Len(h) >= MAX_PREVIOUS_BOARDS THEN any_equal(g, h) ELSE FALSE

is_empty(g) == count_nonzero(g) = 0

\* ----------------------------------------------------------------- step
step_setter_assign(s, value) == value

\* step.setter: self._step += value
step_setter(s, value) == s + value

\* ----------------------------------------------------------------- size
size_setter_accepts_all(value) == FALSE

\* size.setter: raises ValueError when value < 0
size_setter_raises(value) == value < 0

\* ------------------------------------------------------------- patterns
\* np.array([[0, 0, 1], [1, 0, 1], [0, 1, 1]]) padded with a border of zeros
glider ==
    << <<0, 0, 0, 0, 0>>,
       <<0, 0, 0, 1, 0>>,
       <<0, 1, 0, 1, 0>>,
       <<0, 0, 1, 1, 0>>,
       <<0, 0, 0, 0, 0>> >>

RECURSIVE rot90(_, _)
\* np.rot90(m, k): k quarter turns counterclockwise of a 5x5 matrix
rot90(m, k) ==
    IF k = 0 THEN m
    ELSE LET q == rot90(m, k - 1)
         IN  [i \in 1 .. 5 |-> [j \in 1 .. 5 |-> q[j][6 - i]]]

\* self[start : start + 5, start : start + 5] = m
write_region(g, start, m) ==
    [p \in DOMAIN g |->
        IF  /\ start <= p[1] /\ p[1] < start + 5
            /\ start <= p[2] /\ p[2] < start + 5
        THEN m[p[1] - start + 1][p[2] - start + 1]
        ELSE g[p]]

\* A 2x2 block of live cells with top-left corner (r, c) on an empty grid.
BlockAt(n, r, c) ==
    [p \in Cells(n) |-> IF p[1] \in {r, r + 1} /\ p[2] \in {c, c + 1} THEN 1 ELSE 0]

\* The blocks that touch no edge row or column.
Blocks(n) == {BlockAt(n, r, c) : r \in 1 .. n - 3, c \in 1 .. n - 3}

\* Three live cells in a row (horizontal) or in a column, from (r, c).
BlinkerAt(n, r, c, horizontal) ==
    [p \in Cells(n) |->
        IF horizontal
        THEN IF p[1] = r /\ p[2] \in c .. c + 2 THEN 1 ELSE 0
        ELSE IF p[2] = c /\ p[1] \in r .. r + 2 THEN 1 ELSE 0]

Blinkers(n) ==
    {BlinkerAt(n, r, c, TRUE) : r \in 0 .. n - 1, c \in 0 .. n - 3}
    \cup {BlinkerAt(n, r, c, FALSE) : r \in 0 .. n - 3, c \in 0 .. n - 1}

\* ------------------------------------------------------------ operations
SizeInputs == -1 .. MaxSize

\* Board.__new__(size): the state after construction, or the failed call.
New(s) ==
    /\ constructed = ~zeros_raises(s)
    /\ shape = IF zeros_raises(s) THEN 0 ELSE s
    /\ size = IF zeros_raises(s) THEN 0 ELSE s
    /\ grid = IF zeros_raises(s) THEN zeros(0) ELSE zeros(s)
    /\ previous_boards = <<>>
    /\ step = 0
    /\ err = IF zeros_raises(s) THEN "ValueError" ELSE "none"
    /\ calls = 0
    /\ inits = 0

Clear_rebinds ==
    /\ constructed
    /\ inits < MaxInits
    /\ err' = "none"
    /\ inits' = inits + 1
    /\ UNCHANGED <<constructed, shape, size, grid, previous_boards, step, calls>>

Clear_forgets ==
    /\ constructed
    /\ inits < MaxInits
    /\ grid' = [p \in DOMAIN grid |-> 0]
    /\ previous_boards' = <<>>
    /\ err' = "none"
    /\ inits' = inits + 1
    /\ UNCHANGED <<constructed, shape, size, step, calls>>

\* Board.clear
clear ==
    /\ constructed
    /\ grid' = [p \in DOMAIN grid |-> 0]
    /\ previous_boards' = snapshots_after_write(previous_boards, grid')
    /\ err' = "none"
    /\ inits' = inits + 1
    /\ UNCHANGED <<constructed, shape, size, step, calls>>

\* A call of clear, while the run has initialisation calls left.
Clear == inits < MaxInits /\ clear

\* self[:] = value for a value of shape (n, n): numpy broadcasts it when
\* n = shape or n = 1 and raises ValueError otherwise.
broadcasts(n, target) == n = target \/ n = 1

\* Board.randomize_board: the random array has shape (self.size, self.size).
randomize_board ==
    /\ constructed
    /\ \/ /\ broadcasts(size, shape)
          /\ \E a \in AllGrids(size) :
                grid' = [p \in DOMAIN grid |-> a[<<p[1] % size, p[2] % size>>]]
          /\ err' = "none"
       \/ /\ ~broadcasts(size, shape)
          /\ grid' = grid
          /\ err' = "ValueError"
    /\ previous_boards' = snapshots_after_write(previous_boards, grid')
    /\ inits' = inits + 1
    /\ UNCHANGED <<constructed, shape, size, step, calls>>

\* A call of randomize_board, while the run has initialisation calls left.
RandomizeBoard == inits < MaxInits /\ randomize_board

\* np.random.randint(0, self.size - 4) raises ValueError when the range is empty.
randint_raises(n) == n - 4 <= 0

\* The values np.random.randint(0, n - 4) draws: 0 <= start < n - 4.
randint(n) == 0 .. n - 5

fits_clipped(start, target) == TRUE

\* The slice start : start + 5 of an axis of length target is clipped to the
\* axis; it takes the 5x5 value only when it is 5 long.
fits(start, target) == start + 5 <= target

\* Board.make_glider: the rotation and the start are the random draws; the
\* slice is clipped to the array, and a clipped slice cannot take the 5x5 value.
make_glider ==
    /\ constructed
    /\ \/ /\ randint_raises(size)
          /\ grid' = grid
          /\ err' = "ValueError"
       \/ /\ ~randint_raises(size)
          /\ \E rotation \in 0 .. 3, start \in randint(size) :
                IF fits(start, shape)
                THEN /\ grid' = write_region(grid, start, rot90(glider, rotation))
                     /\ err' = "none"
                ELSE /\ grid' = grid
                     /\ err' = "ValueError"
    /\ previous_boards' = snapshots_after_write(previous_boards, grid')
    /\ inits' = inits + 1
    /\ UNCHANGED <<constructed, shape, size, step, calls>>

\* A call of make_glider, while the run has initialisation calls left.
MakeGlider == inits < MaxInits /\ make_glider

\* Board.next_step. On an array without cells the convolution either returns
\* an empty array or raises; the snapshot is stored before it in both cases.
next_step ==
    /\ constructed
    /\ \/ /\ grid' = evolve(grid, shape)
          /\ err' = "none"
       \/ /\ shape = 0
          /\ grid' = grid
          /\ err' = "ValueError"
    /\ previous_boards' =
        snapshots_after_write(previous_boards_setter(previous_boards, grid), grid')
    /\ UNCHANGED <<constructed, shape, size, step, inits>>

\* One iteration of main.py's loop.
NextStep ==
    /\ calls < MaxCalls
    /\ next_step
    /\ calls' = calls + 1

\* Board.render_rich_table: np.vectorize raises ValueError on an array without
\* cells, before the step is incremented.
RenderRichTable ==
    /\ constructed
    /\ step < MaxStep
    /\ IF shape = 0
       THEN /\ step' = step
            /\ err' = "ValueError"
       ELSE /\ step' = step_setter(step, 1)
            /\ err' = "none"
    /\ UNCHANGED <<constructed, shape, size, grid, previous_boards, calls, inits>>

\* Board.size = value
SetSize(value) ==
    /\ constructed
    /\ IF size_setter_raises(value)
       THEN /\ size' = size
            /\ err' = "ValueError"
       ELSE /\ size' = value
            /\ err' = "none"
    /\ UNCHANGED <<constructed, shape, grid, previous_boards, step, calls, inits>>

SetSizeAny == \E value \in SizeInputs : SetSize(value)

\* ------------------------------------------------------- specifications
\* Any sequence of calls on a Board constructed with any size, Board(0) and
\* the failed Board(-1) included.
Init == \E s \in SizeInputs : New(s)

Next ==
    \/ Clear
    \/ RandomizeBoard
    \/ MakeGlider
    \/ NextStep
    \/ RenderRichTable
    \/ SetSizeAny

Spec == Init /\ [][Next]_vars

\* A constructed board of shape n filled with g by the caller.
Filled(n, g) ==
    /\ constructed = TRUE
    /\ shape = n
    /\ size = n
    /\ grid = g
    /\ previous_boards = <<>>
    /\ step = 0
    /\ err = "none"
    /\ calls = 0
    /\ inits = 0

\* The grids make_glider leaves on an empty board of shape n.
GliderGrids(n) ==
    {write_region(zeros(n), start, rot90(glider, rotation)) :
        rotation \in 0 .. 3, start \in 0 .. n - 5}

\* The transition rule on every grid of the small boards and on the patterns
\* of the larger ones.
RuleGrids(n) ==
    IF n <= MaxN THEN AllGrids(n)
    ELSE IF n >= MinBoard THEN Blocks(n) \cup Blinkers(n) \cup GliderGrids(n)
    ELSE {}

RuleInit == \E n \in 1 .. MaxBoard : \E g \in RuleGrids(n) : Filled(n, g)

RuleNext == calls < MaxRuleCalls /\ NextStep

SpecRule == RuleInit /\ [][RuleNext]_vars

\* The driver of main.py: the board is initialised before the loop, and the
\* loop calls next_step.
RunGrids(n) ==
    IF n <= MaxN THEN {g \in AllGrids(n) : count_nonzero(g) <= MaxLive}
    ELSE IF n >= MinBoard THEN {zeros(n)} \cup Blocks(n) \cup Blinkers(n)
    ELSE {}

RunInit == \E n \in 1 .. MaxBoard : \E g \in RunGrids(n) : Filled(n, g)

MakeGliderFirst == calls = 0 /\ inits = 0 /\ MakeGlider

RunNext == MakeGliderFirst \/ NextStep

SpecRun == RunInit /\ [][RunNext]_vars

\* The initialisation calls and the size setter on boards of every size up to
\* MaxBoard that the caller filled: an empty grid, a full grid or a blinker.
SetupGrids(n) ==
    {zeros(n), [p \in Cells(n) |-> 1]}
    \cup (IF n >= 5 THEN {BlinkerAt(n, 1, 1, TRUE)} ELSE {})

SetupInit == \E n \in 1 .. MaxBoard : \E g \in SetupGrids(n) : Filled(n, g)

SetupSetSize == \E value \in -1 .. MaxBoard : SetSize(value)

SetupNextStep == calls < MaxRuleCalls /\ NextStep

SetupNext ==
    \/ Clear
    \/ MakeGlider
    \/ SetupSetSize
    \/ SetupNextStep

SpecSetup == SetupInit /\ [][SetupNext]_vars

\* A run on the smallest board that takes a glider, started from a glider or a
\* blinker, that the caller re-initialises between next_step calls with clear
\* and make_glider, at most MaxReinits times.
ReinitGrids ==
    {write_region(zeros(GliderSize), 0, glider), BlinkerAt(GliderSize, 1, 1, TRUE)}

ReinitInit == \E g \in ReinitGrids : Filled(GliderSize, g)

ReinitClear == inits < MaxReinits /\ clear

ReinitMakeGlider == inits < MaxReinits /\ make_glider

ReinitNext ==
    \/ NextStep
    \/ ReinitClear
    \/ ReinitMakeGlider

SpecReinit == ReinitInit /\ [][ReinitNext]_vars

\* The loop of main.py without a bound on its iterations: every iteration
\* calls next_step, whatever is_stable() and is_empty() answer. The seeds are
\* the grids of at most MaxLoopLive cells on the small boards and the empty
\* grid, the blocks, the blinkers and the gliders on the larger ones.
LoopGrids(n) ==
    IF n <= MaxN THEN {g \in AllGrids(n) : count_nonzero(g) <= MaxLoopLive}
    ELSE IF n >= MinBoard
        THEN {zeros(n)} \cup Blocks(n) \cup Blinkers(n) \cup GliderGrids(n)
    ELSE {}

LoopInit == \E n \in 1 .. MaxBoard : \E g \in LoopGrids(n) : Filled(n, g)

LoopStep == next_step /\ UNCHANGED calls

LoopNext == LoopStep

SpecLoop == LoopInit /\ [][LoopNext]_vars /\ WF_vars(LoopStep)

\* ------------------------------------------------------------ properties
\* The live cells among the 8 cells around (r, c), by direct summation with
\* indices taken modulo n.
ToroidalCount(g, n, p) ==
      g[<<(p[1] - 1) % n, (p[2] - 1) % n>>] + g[<<(p[1] - 1) % n, p[2]>>]
    + g[<<(p[1] - 1) % n, (p[2] + 1) % n>>] + g[<<p[1], (p[2] - 1) % n>>]
    + g[<<p[1], (p[2] + 1) % n>>] + g[<<(p[1] + 1) % n, (p[2] - 1) % n>>]
    + g[<<(p[1] + 1) % n, p[2]>>] + g[<<(p[1] + 1) % n, (p[2] + 1) % n>>]

\* The grid as it was before the last next_step call.
LastSnapshot == previous_boards[Len(previous_boards)]

\* C1: the history never holds more than MAX_PREVIOUS_BOARDS snapshots.
C1_HistoryBounded == Len(previous_boards) <= MAX_PREVIOUS_BOARDS

\* C2 as stated: the step counter equals the number of next_step calls.
C2_StepCountsCalls == constructed => step = calls

\* C2 as amended: the step counter starts at 0, next_step leaves it unchanged
\* and each render_rich_table call that returns adds exactly 1 to it.
C2_StepCountsRenders ==
    /\ step = 0
    /\ [][ /\ NextStep => step' = step
           /\ (RenderRichTable /\ err' = "none") => step' = step + 1
           /\ step' # step => (RenderRichTable /\ err' = "none") ]_vars

C2_Witness == step = 2 /\ calls = 2

\* C3: a cell that is dead before next_step is alive after it exactly when
\* its toroidal neighbour count before the call is 3.
C3_BirthOnExactlyThree ==
    [][NextStep /\ err' = "none" =>
        \A p \in DOMAIN grid :
            grid[p] = 0 => (grid'[p] = 1 <=> ToroidalCount(grid, shape, p) = 3)]_vars

C3_Witness ==
    /\ calls = 1
    /\ \E p \in DOMAIN grid, q \in DOMAIN grid :
        /\ LastSnapshot[p] = 0 /\ ToroidalCount(LastSnapshot, shape, p) >= 4 /\ grid[p] = 0
        /\ LastSnapshot[q] = 0 /\ ToroidalCount(LastSnapshot, shape, q) = 3 /\ grid[q] = 1

\* C4: a cell that is alive before next_step is alive after it exactly when
\* its toroidal neighbour count before the call is 2 or 3, every cell being
\* decided from the grid as it was before the call.
C4_SurvivalOnTwoOrThree ==
    [][NextStep /\ err' = "none" =>
        \A p \in DOMAIN grid :
            grid[p] = 1 => (grid'[p] = 1 <=> ToroidalCount(grid, shape, p) \in {2, 3})]_vars

C4_Witness ==
    /\ calls = 1
    /\ \E p \in DOMAIN grid, q \in DOMAIN grid :
        /\ LastSnapshot[p] = 1 /\ ToroidalCount(LastSnapshot, shape, p) = 1 /\ grid[p] = 0
        /\ LastSnapshot[q] = 1 /\ ToroidalCount(LastSnapshot, shape, q) = 3 /\ grid[q] = 1

\* C5: the neighbours matrix has the grid's dimensions, each entry is the sum
\* of the 8 surrounding cells with indices modulo the size, so it lies in 0..8,
\* and a live corner (0, 0) is counted by the three cells across the edges.
C5_NeighborsIsToroidalSum ==
    constructed =>
        LET nb == neighbors(grid, shape)
        IN  /\ DOMAIN nb = Cells(shape)
            /\ \A p \in Cells(shape) :
                nb[p] = ToroidalCount(grid, shape, p) /\ nb[p] \in 0 .. 8
            /\ (shape >= 1 /\ grid[<<0, 0>>] = 1) =>
                /\ nb[<<shape - 1, shape - 1>>] >= 1
                /\ nb[<<shape - 1, 0>>] >= 1
                /\ nb[<<0, shape - 1>>] >= 1

C5_Witness ==
    /\ shape = 3 /\ calls = 0
    /\ grid[<<0, 0>>] = 1 /\ count_nonzero(grid) = 1
    /\ neighbors(grid, shape)[<<2, 2>>] = 1
    /\ neighbors(grid, shape)[<<0, 0>>] = 0

\* C6: is_stable() is true exactly when the history holds at least
\* MAX_PREVIOUS_BOARDS snapshots and one of them equals the grid; it is false
\* in every state reached by fewer than MAX_PREVIOUS_BOARDS next_step calls.
C6_StableIffFullAndSeen ==
    constructed =>
        /\ is_stable(grid, previous_boards) <=>
            ( /\ Len(previous_boards) >= MAX_PREVIOUS_BOARDS
              /\ \E i \in 1 .. Len(previous_boards) : previous_boards[i] = grid )
        /\ calls < MAX_PREVIOUS_BOARDS => ~is_stable(grid, previous_boards)

C6_Witness ==
    /\ calls = MAX_PREVIOUS_BOARDS
    /\ Len(previous_boards) = MAX_PREVIOUS_BOARDS
    /\ is_stable(grid, previous_boards)

\* The grid p generations after the first of the run, read from the run's
\* snapshots while none has been evicted.
Generation(p) ==
    IF p < Len(previous_boards) THEN previous_boards[p + 1] ELSE grid

\* C7: when the first grid of a run recurs after p <= MAX_PREVIOUS_BOARDS
\* generations, is_stable() is true after MAX_PREVIOUS_BOARDS next_step calls;
\* a blinker on a board of at least 6x6 alternates between two grids and is
\* such a run.
C7_ShortCycleIsStable ==
    (calls = MAX_PREVIOUS_BOARDS /\ Len(previous_boards) = MAX_PREVIOUS_BOARDS) =>
        /\ (\E p \in 1 .. MAX_PREVIOUS_BOARDS : Generation(p) = Generation(0)) =>
            is_stable(grid, previous_boards)
        /\ (shape >= MinBoard /\ Generation(0) \in Blinkers(shape)) =>
            /\ Generation(1) # Generation(0)
            /\ \A p \in 0 .. MAX_PREVIOUS_BOARDS - 2 : Generation(p + 2) = Generation(p)
            /\ is_stable(grid, previous_boards)

C7_Witness ==
    /\ calls = MAX_PREVIOUS_BOARDS
    /\ shape >= MinBoard
    /\ previous_boards[1] \in Blinkers(shape)
    /\ previous_boards[2] # previous_boards[1]
    /\ is_stable(grid, previous_boards)

\* C8: a grid whose only live cells are a 2x2 block away from the edges of a
\* board of at least 6x6 is left unchanged by every later next_step call.
C8_BlockIsFixedPoint ==
    \A i \in 1 .. Len(previous_boards) :
        (shape >= MinBoard /\ previous_boards[i] \in Blocks(shape)) =>
            grid = previous_boards[i]

C8_Witness ==
    /\ calls > MAX_PREVIOUS_BOARDS
    /\ shape >= MinBoard
    /\ grid \in Blocks(shape)
    /\ previous_boards[1] = grid

\* The grid g moved by dr rows and dc columns on the torus of shape n.
Translate(g, n, dr, dc) ==
    [p \in Cells(n) |-> g[<<(p[1] - dr) % n, (p[2] - dc) % n>>]]

\* C9: four next_step calls move each rotation of the glider that make_glider
\* writes on an empty board by one cell along a diagonal, and the grid holds
\* 5 live cells before and after.
C9_GliderTranslates ==
    ( /\ calls = 4 /\ Len(previous_boards) = 4
      /\ shape >= MinBoard
      /\ previous_boards[1] \in GliderGrids(shape) ) =>
        /\ count_nonzero(previous_boards[1]) = 5
        /\ count_nonzero(grid) = 5
        /\ \E dr \in {-1, 1}, dc \in {-1, 1} :
            grid = Translate(previous_boards[1], shape, dr, dc)

C9_Witness ==
    /\ calls = 4 /\ inits = 1 /\ err = "none"
    /\ shape >= MinBoard
    /\ previous_boards[1] = write_region(zeros(shape), 1, rot90(glider, 3))
    /\ grid # previous_boards[1]

\* C10 as stated: no board has a size of 0 or less.
C10_SizePositive == constructed => size > 0

\* C10 as amended: a negative size is refused by the constructor and by the
\* size setter, which keeps the previous size; no board has a negative size.
C10_NegativeSizeRefused ==
    /\ [](constructed => (size >= 0 /\ shape >= 0))
    /\ [](~constructed => err = "ValueError")
    /\ [][\A value \in SizeInputs :
            (value < 0 /\ SetSize(value)) => (err' = "ValueError" /\ size' = size)]_vars

C10_Witness ==
    /\ constructed /\ shape = 1 /\ size = 0
    /\ err = "ValueError"
    /\ calls = 0 /\ inits = 0 /\ step = 0

\* C11: the array is size x size in every state, after an assignment through
\* the size setter too.
C11_ShapeIsSize == constructed => shape = size

C14_EmptyIffAllZero ==
    /\ [](is_empty(grid) <=> \A p \in DOMAIN grid : grid[p] = 0)
    /\ [][Clear => is_empty(grid')]_vars

C14_Witness ==
    /\ inits = 1 /\ calls = 1
    /\ is_empty(grid)
    /\ ~is_empty(LastSnapshot)
    /\ ~is_empty(evolve(LastSnapshot, shape))


\* C12: make_glider on a board smaller than 5 (by its size or by its grid)
\* fails with an error and leaves the grid, the history, the step and the
\* size as they were.
C12_SmallGliderFails ==
    [][MakeGlider /\ (size < 5 \/ shape < 5)
        => /\ err' = "ValueError"
           /\ grid' = grid
           /\ previous_boards' = previous_boards
           /\ step' = step
           /\ size' = size]_vars

C12_Witness ==
    /\ inits = 1
    /\ err = "ValueError"
    /\ shape \in 1 .. 4
    /\ size = shape
    /\ count_nonzero(grid) > 0

\* The 5x5 region of g2 with top-left corner (r, c) holds m and every cell
\* outside it has its value in g.
RegionIs(g2, g, r, c, m) ==
    /\ DOMAIN g2 = DOMAIN g
    /\ \A p \in DOMAIN g :
        IF r <= p[1] /\ p[1] < r + 5 /\ c <= p[2] /\ p[2] < c + 5
        THEN g2[p] = m[p[1] - r + 1][p[2] - c + 1]
        ELSE g2[p] = g[p]

\* C17: on a board of size >= 5, make_glider writes a rotation of the glider
\* into one 5x5 region with corner (r, c), 0 <= r, c <= size - 5, lying inside
\* the grid, and leaves every cell outside the region as it was.
C17_GliderInOneRegion ==
    [][MakeGlider /\ size >= 5
        => /\ err' = "none"
           /\ \E r \in 0 .. size - 5, c \in 0 .. size - 5, k \in 0 .. 3 :
                /\ r + 5 <= shape
                /\ c + 5 <= shape
                /\ RegionIs(grid', grid, r, c, rot90(glider, k))]_vars


\* C15: each next_step call appends the grid as it was before the call, after
\* dropping at most the oldest snapshot, so that the history is the most recent
\* pre-transition grids in order; it holds all of them until the first
\* eviction and never more snapshots than there were calls.
C15_HistoryIsRecentSuffix ==
    /\ [](/\ Len(previous_boards) <= calls
          /\ calls <= MAX_PREVIOUS_BOARDS => Len(previous_boards) = calls)
    /\ [][NextStep =>
            \/ previous_boards' = Append(previous_boards, grid)
            \/ /\ previous_boards # <<>>
               /\ previous_boards' = Append(Tail(previous_boards), grid)]_vars

C15_Witness ==
    /\ calls > MAX_PREVIOUS_BOARDS + 1
    /\ inits = 1
    /\ \A i, j \in 1 .. Len(previous_boards) :
        previous_boards[i] = previous_boards[j] => i = j
    /\ grid # previous_boards[1]

Chain ==
    /\ \A i \in 1 .. Len(previous_boards) - 1 :
        previous_boards[i + 1] = evolve(previous_boards[i], shape)
    /\ previous_boards # <<>> => grid = evolve(LastSnapshot, shape)

\* C18 as stated: once is_stable() is true it is true after every next_step.
C18_StableIsAbsorbing ==
    [][(NextStep /\ is_stable(grid, previous_boards))
        => is_stable(grid', previous_boards')]_vars

\* C18 as amended: when is_stable() is true and the history holds consecutive
\* generations, next_step leaves is_stable() true and the history a run of
\* consecutive generations.
C18_StableIsAbsorbingOnChain ==
    [][(NextStep /\ is_stable(grid, previous_boards) /\ Chain)
        => /\ is_stable(grid', previous_boards')
           /\ Chain']_vars

C18_Witness ==
    /\ calls > MAX_PREVIOUS_BOARDS
    /\ is_stable(grid, previous_boards)
    /\ Chain
    /\ grid # LastSnapshot
    /\ ~is_empty(grid)


RECURSIVE recurs(_, _, _, _)
\* g is one of the k generations that follow cur on a board of shape n.
recurs(g, cur, n, k) ==
    IF k = 0 THEN FALSE
    ELSE LET successor == evolve(cur, n)
         IN  successor = g \/ recurs(g, successor, n, k - 1)

\* The grid recurs within as many generations as the history can hold.
OnShortCycle == recurs(grid, grid, shape, MAX_PREVIOUS_BOARDS + 1)

\* C19 as stated: every run of next_step calls reaches a state where
\* is_stable() or is_empty() is true.
C19_LoopTerminates == <>(is_stable(grid, previous_boards) \/ is_empty(grid))

\* C19 as amended: a run reaches a state where is_stable() or is_empty() is
\* true exactly when it reaches a grid that recurs within
\* MAX_PREVIOUS_BOARDS + 1 generations.
C19_ShortCycleTerminates ==
    /\ OnShortCycle ~> (is_stable(grid, previous_boards) \/ is_empty(grid))
    /\ []((is_stable(grid, previous_boards) \/ is_empty(grid)) => OnShortCycle)

C19_Witness ==
    /\ is_stable(grid, previous_boards)
    /\ ~is_empty(grid)
    /\ grid # LastSnapshot
    /\ previous_boards[1] # previous_boards[2]
    /\ OnShortCycle

====
